---- MODULE Spec2Model ----
(***************************************************************************)
(* Model of the lab-report exporter: the two create_lab_pdf revisions      *)
(* (the monolith in lab_app.py and the helper-based one in                 *)
(* pdf_generator.py) and the Streamlit script main of lab_app.py.          *)
(*                                                                         *)
(* The FPDF canvas is a record: the page geometry, the registered fonts,   *)
(* the current font, the height of the last cell, the sequence of items    *)
(* appended so far and the exception (if any) that stopped the rendering.  *)
(* Every canvas primitive is an operator from canvas to canvas that does   *)
(* nothing once an exception is pending, so a helper is the composition of *)
(* its calls in source order.                                              *)
(***************************************************************************)
EXTENDS Integers, Sequences, FiniteSets, TLC

VARIABLES
    pc,            \* position of the single thread of control
    caller,        \* "main" (the Streamlit script) or "direct" (an importer)
    impl,          \* "app" = lab_app.create_lab_pdf, "gen" = pdf_generator.create_lab_pdf
    student_name, section, lab_title, objective, data_df, analysis, conclusion,
    fig_buf,       \* None or the PNG bytes of the plot
    fontExists,    \* os.path.exists(font_path) / os.path.exists("DejaVuSans.ttf")
    pdf,           \* the FPDF canvas of the running export
    result,        \* None or the document bytes returned by create_lab_pdf
    tmpFiles,      \* the temporary directory: contents of the files left in it
    ui,            \* conditional elements shown by the current script run
    calls,         \* exports started so far
    plotReturns    \* exports that returned to their caller and had a plot image

vars == <<pc, caller, impl, student_name, section, lab_title, objective, data_df,
          analysis, conclusion, fig_buf, fontExists, pdf, result, tmpFiles, ui,
          calls, plotReturns>>

inputs == <<student_name, section, lab_title, objective, data_df, analysis,
            conclusion, fig_buf, fontExists>>

----------------------------------------------------------------------------
(* Bounds of the model *)

MaxCols == 7
MaxRows == 2
MaxExports == 2

----------------------------------------------------------------------------
(* Python values *)

\* Python's None: a value different from every text and every buffer.
None == "<None>"

\* Truthiness of an optional text: None and the empty text are falsy.
Falsy(x) == x = None \/ x = ""

\* x or d (PyOrDropped: the operand alone, without the default)
PyOrDropped(x, d) == x
PyOr(x, d) == IF Falsy(x) THEN d ELSE x

Digit(d) == <<"0", "1", "2", "3", "4", "5", "6", "7", "8", "9">>[d + 1]

RECURSIVE NatToStr(_)
NatToStr(n) == IF n < 10 THEN Digit(n) ELSE NatToStr(n \div 10) \o Digit(n % 10)

\* str(v) of a table value.  A value is tagged: an int, a float with one
\* decimal (kept in tenths), a text, or NaN (a cell the editor left blank).
Str(v) ==
    CASE v.t = "int"   -> (IF v.n < 0 THEN "-" \o NatToStr(-v.n) ELSE NatToStr(v.n))
      [] v.t = "float" -> (IF v.n < 0 THEN "-" ELSE "")
                          \o NatToStr((IF v.n < 0 THEN -v.n ELSE v.n) \div 10)
                          \o "." \o NatToStr((IF v.n < 0 THEN -v.n ELSE v.n) % 10)
      [] v.t = "str"   -> v.s
      [] v.t = "nan"   -> "nan"

Max(a, b) == IF a >= b THEN a ELSE b

----------------------------------------------------------------------------
(* Data tables (pandas.DataFrame): ordered column names, ordered rows, each  *)
(* row a mapping from column name to value.                                 *)

ColName(i) ==
    IF i = 1 THEN "Time (s)" ELSE IF i = 2 THEN "Position (m)" ELSE "col" \o NatToStr(i)

\* The value at row j, column i of the generated tables: the default table's
\* floats, ints, texts and blanks, different in neighbouring cells.
CellValue(j, i) ==
    CASE (i + j) % 4 = 2 -> [t |-> "float", n |-> 5 * (j - 1) * i, s |-> ""]
      [] (i + j) % 4 = 3 -> [t |-> "float", n |-> 12 * j + 35 * (i - 2), s |-> ""]
      [] (i + j) % 4 = 0 -> [t |-> "int", n |-> i - 2 * j, s |-> ""]
      [] (i + j) % 4 = 1 -> IF j = 1 THEN [t |-> "str", n |-> 0, s |-> "n/a"]
                                     ELSE [t |-> "nan", n |-> 0, s |-> ""]

MkTable(nc, nr) ==
    [columns |-> [i \in 1..nc |-> ColName(i)],
     rows    |-> [j \in 1..nr |-> [c \in {ColName(i) : i \in 1..nc} |->
                     CellValue(j, CHOOSE i \in 1..nc : ColName(i) = c)]]]

\* DataFrame.empty: some axis has length 0.
Empty(df) == Len(df.columns) = 0 \/ Len(df.rows) = 0

----------------------------------------------------------------------------
(* The FPDF canvas *)

PageW == 210
Margin == 15
ImageW == 170

\* Families usable without add_font.
CoreFonts == {"Arial", "Helvetica", "Courier", "Times", "Symbol", "ZapfDingbats"}

\* An exact width num/den in millimetres.
Frac(num, den) == <<num, den>>

\* FPDF(orientation="P", unit="mm", format="A4"); set_auto_page_break;
\* set_margins(15, 15, 15); add_page()
NewPdf ==
    [w |-> PageW, l_margin |-> Margin, r_margin |-> Margin,
     fonts |-> CoreFonts, font_family |-> "", font_size |-> 0, lasth |-> 0,
     items |-> <<>>, exc |-> "none"]

Item(k, w, h, txt, border, nl, data) ==
    [k |-> k, w |-> w, h |-> h, txt |-> txt, border |-> border, nl |-> nl, data |-> data]

Raise(p, e) == IF p.exc = "none" THEN [p EXCEPT !.exc = e] ELSE p

Put(p, it) == IF p.exc = "none" THEN [p EXCEPT !.items = Append(@, it)] ELSE p

\* pdf.add_font(family, "", path, uni=True)
add_font(p, family) ==
    IF p.exc = "none" THEN [p EXCEPT !.fonts = @ \cup {family}] ELSE p

\* pdf.set_font(family, "", size): an unregistered family is an error.
set_font(p, family, size) ==
    IF p.exc # "none" THEN p
    ELSE IF family \in p.fonts
         THEN [p EXCEPT !.font_family = family, !.font_size = size]
         ELSE Raise(p, "FPDFException")

\* pdf.cell(w, h, txt, border=border, ln=nl)
cell(p, w, h, txt, border, nl) ==
    IF p.exc # "none" THEN p
    ELSE [Put(p, Item("cell", w, h, txt, border, nl, "")) EXCEPT !.lasth = h]

\* pdf.multi_cell(w, h, txt)
multi_cell(p, w, h, txt) ==
    IF p.exc # "none" THEN p
    ELSE [Put(p, Item("multi_cell", w, h, txt, 0, TRUE, "")) EXCEPT !.lasth = h]

\* pdf.ln(h); pdf.ln() breaks by the height of the last cell.
ln(p, h) == Put(p, Item("ln", Frac(0, 1), h, "", 0, TRUE, ""))
ln_last(p) == ln(p, p.lasth)

\* pdf.image(path, w=170): embeds the file found at path.
FileAt(files, path) == {i \in 1..Len(files) : files[i].name = path}
image(p, files, path, w) ==
    IF p.exc # "none" THEN p
    ELSE IF FileAt(files, path) = {} THEN Raise(p, "FileNotFoundError")
    ELSE Put(p, Item("image", Frac(w, 1), 0, path, 0, TRUE,
                     files[CHOOSE i \in FileAt(files, path) : TRUE].data))

\* tempfile.NamedTemporaryFile(delete=False, suffix=".png"): a fresh name.
TmpName(files) == "tmp" \o NatToStr(Len(files) + 1) \o ".png"

\* datetime.now().strftime("%Y-%m-%d %H:%M")
Timestamp == "2025-01-01 10:00"

----------------------------------------------------------------------------
(* pdf_generator.py *)

safe_multicell(p, text, h) ==
    multi_cell(p, Frac(p.w - p.l_margin - p.r_margin, 1), h, text)

add_font_or_fallback(p, exists) ==
    IF exists
    THEN set_font(add_font(p, "DejaVu"), "DejaVu", 12)
    ELSE set_font(p, "Arial", 12)

render_header(p, title, name, sec) ==
    LET p1 == ln(safe_multicell(set_font(p, "DejaVu", 16), title, 6), 3)
        p2 == safe_multicell(set_font(p1, "DejaVu", 11),
                             "Student Name: " \o PyOr(name, "N/A"), 6)
        p3 == safe_multicell(p2, "Section: " \o PyOr(sec, "N/A"), 6)
        p4 == safe_multicell(p3, "Generated: " \o Timestamp, 6)
    IN  ln(p4, 3)

render_objective(p, obj) == ln(safe_multicell(p, "Objective:\n" \o obj, 6), 5)

\* for col in data_df.columns: pdf.cell(col_width, 8, <text>, border=1)
RECURSIVE cells(_, _, _, _)
cells(p, col_width, texts, i) ==
    IF i > Len(texts) THEN p
    ELSE cells(cell(p, col_width, 8, texts[i], 1, FALSE), col_width, texts, i + 1)

\* for _, row in data_df.iterrows(): one cell per column, then pdf.ln()
RECURSIVE row_cells(_, _, _, _)
row_cells(p, col_width, df, j) ==
    IF j > Len(df.rows) THEN p
    ELSE row_cells(
            ln_last(cells(p, col_width,
                          [i \in 1..Len(df.columns) |-> Str(df.rows[j][df.columns[i]])], 1)),
            col_width, df, j + 1)

\* The header line and the data lines of a non-empty table
\* (table_body_noheader: the data lines alone).
table_body_noheader(p, col_width, df) == row_cells(p, col_width, df, 1)
table_body(p, col_width, df) ==
    row_cells(ln_last(cells(p, col_width, df.columns, 1)), col_width, df, 1)

\* col_width = (pdf.w - pdf.l_margin - pdf.r_margin) / col_count
gen_col_width(p, df) == Frac(p.w - p.l_margin - p.r_margin, Len(df.columns))

\* _render_data_table (render_data_table_always: without the emptiness test)
render_data_table_always(p, df) ==
    LET p1 == ln(safe_multicell(set_font(p, "DejaVu", 12), "Data Table", 6), 1)
        p2 == set_font(p1, "DejaVu", 10)
    IN  ln(table_body(p2, gen_col_width(p2, df), df), 5)
render_data_table(p, df) ==
    LET p1 == ln(safe_multicell(set_font(p, "DejaVu", 12), "Data Table", 6), 1)
        p2 == set_font(p1, "DejaVu", 10)
        p3 == IF ~ Empty(df)
              THEN table_body(p2, gen_col_width(p2, df), df)
              ELSE safe_multicell(p2, "No data entered.", 6)
    IN  ln(p3, 5)

\* _render_plot up to the temporary file: the "Plot" heading.
render_plot_heading(p) == ln(safe_multicell(set_font(p, "DejaVu", 12), "Plot", 6), 1)

\* _render_analysis (render_analysis_swapped: the two sections exchanged)
render_analysis_swapped(p, ana, con) ==
    LET p1 == safe_multicell(set_font(p, "DejaVu", 12), "Conclusion", 6)
        p2 == ln(safe_multicell(set_font(p1, "DejaVu", 11), PyOr(con, "N/A"), 6), 5)
        p3 == safe_multicell(set_font(p2, "DejaVu", 12), "Analysis", 6)
    IN  safe_multicell(set_font(p3, "DejaVu", 11), PyOr(ana, "N/A"), 6)
render_analysis(p, ana, con) ==
    LET p1 == safe_multicell(set_font(p, "DejaVu", 12), "Analysis", 6)
        p2 == ln(safe_multicell(set_font(p1, "DejaVu", 11), PyOr(ana, "N/A"), 6), 5)
        p3 == safe_multicell(set_font(p2, "DejaVu", 12), "Conclusion", 6)
    IN  safe_multicell(set_font(p3, "DejaVu", 11), PyOr(con, "N/A"), 6)

\* pdf.output(dest="S") as bytes: the document signature, then the canvas.
NoBytes == [signature |-> "", body |-> <<>>]
DocBytes(p) == [signature |-> "%PDF-", body |-> p.items]

----------------------------------------------------------------------------
(* lab_app.py: the sections of the monolithic create_lab_pdf.  A cell of    *)
(* width 0 extends to the right margin.                                     *)

ToMargin == Frac(0, 1)

app_load_font(p, exists) ==
    IF ~ exists THEN Raise(p, "FileNotFoundError") ELSE add_font(p, "DejaVu")

app_header(p, title, name, sec) ==
    LET p1 == ln(cell(set_font(p, "DejaVu", 16), ToMargin, 10, title, 0, TRUE), 5)
        p2 == multi_cell(set_font(p1, "DejaVu", 11), ToMargin, 6,
                         "Student Name: " \o PyOr(name, "N/A"))
        p3 == multi_cell(p2, ToMargin, 6, "Section: " \o PyOr(sec, "N/A"))
    IN  multi_cell(p3, ToMargin, 6, "Generated: " \o Timestamp)

app_objective(p, obj) ==
    ln(multi_cell(ln(p, 4), ToMargin, 6, "Objective:\n" \o obj), 5)

\* col_width = max(30, 170 // len(data_df.columns))
app_col_width(df) == Frac(Max(30, 170 \div Len(df.columns)), 1)

app_data_table(p, df) ==
    LET p1 == cell(set_font(p, "DejaVu", 13), ToMargin, 8, "Data Table", 0, TRUE)
        p2 == set_font(p1, "DejaVu", 10)
        p3 == IF ~ Empty(df)
              THEN table_body(p2, app_col_width(df), df)
              ELSE multi_cell(p2, ToMargin, 6, "No data entered.")
    IN  ln(p3, 5)

app_plot_heading(p) ==
    ln(cell(set_font(p, "DejaVu", 13), ToMargin, 8, "Plot", 0, TRUE), 2)

app_analysis(p, ana, con) ==
    LET p1 == cell(set_font(p, "DejaVu", 13), ToMargin, 8, "Analysis", 0, TRUE)
        p2 == ln(multi_cell(set_font(p1, "DejaVu", 11), ToMargin, 6, PyOr(ana, "N/A")), 5)
        p3 == cell(set_font(p2, "DejaVu", 13), ToMargin, 8, "Conclusion", 0, TRUE)
    IN  multi_cell(set_font(p3, "DejaVu", 11), ToMargin, 6, PyOr(con, "N/A"))

----------------------------------------------------------------------------
(* Inputs *)

Names       == {None, "", "Ada"}
Sections    == {"", "P3"}
Titles      == {"Constant Acceleration Motion Lab"}
Objectives  == {"To investigate."}
Analyses    == {"", "x grows as t^2"}
Conclusions == {None, "a is constant"}
Figs        == {None, "PNG:scatter"}

\* What the form widgets return: a text, never None.
FormTexts(S) == S \ {None}

TypeOK ==
    /\ pc \in {"idle", "main_plot", "main_button", "font", "header", "objective",
               "table", "plot", "analysis", "output", "returned", "raised"}
    /\ caller \in {"main", "direct"}
    /\ impl \in {"app", "gen"}
    /\ fontExists \in BOOLEAN
    /\ calls \in 0..MaxExports
    /\ plotReturns \in 0..calls

Init ==
    /\ pc = "idle"
    /\ caller = "direct"
    /\ impl = "gen"
    /\ student_name = ""
    /\ section = ""
    /\ lab_title = "Constant Acceleration Motion Lab"
    /\ objective = "To investigate."
    /\ data_df = MkTable(0, 0)
    /\ analysis = ""
    /\ conclusion = ""
    /\ fig_buf = None
    /\ fontExists = TRUE
    /\ pdf = NewPdf
    /\ result = NoBytes
    /\ tmpFiles = <<>>
    /\ ui = <<>>
    /\ calls = 0
    /\ plotReturns = 0

\* The export is over: its Report Input, canvas and document are gone.
Forget ==
    /\ student_name' = ""
    /\ section' = ""
    /\ lab_title' = "Constant Acceleration Motion Lab"
    /\ objective' = "To investigate."
    /\ data_df' = MkTable(0, 0)
    /\ analysis' = ""
    /\ conclusion' = ""
    /\ fig_buf' = None
    /\ fontExists' = TRUE
    /\ pdf' = NewPdf
    /\ result' = NoBytes

\* One rendering step of the running export: the canvas after it, and the
\* next position unless the step raised.
Step(p, next) ==
    /\ pdf' = p
    /\ pc' = IF p.exc = "none" THEN next ELSE "raised"
    /\ UNCHANGED <<caller, impl, inputs, result, tmpFiles, ui, calls, plotReturns>>

----------------------------------------------------------------------------
(* create_lab_pdf of pdf_generator.py, one action per helper call *)

\* A caller passes a Report Input (and a font path that exists or not).
Call(i) ==
    /\ pc = "idle"
    /\ calls < MaxExports
    /\ impl' = i
    /\ caller' = "direct"
    /\ student_name' \in Names
    /\ section' \in Sections
    /\ lab_title' \in Titles
    /\ objective' \in Objectives
    /\ \E nc \in 0..MaxCols, nr \in 0..MaxRows : data_df' = MkTable(nc, nr)
    /\ analysis' \in Analyses
    /\ conclusion' \in Conclusions
    /\ fig_buf' \in Figs
    /\ fontExists' \in BOOLEAN
    /\ pdf' = NewPdf
    /\ result' = NoBytes
    /\ pc' = "font"
    /\ calls' = calls + 1
    /\ UNCHANGED <<tmpFiles, ui, plotReturns>>

CallGen == Call("gen")

AddFont ==
    /\ pc = "font" /\ impl = "gen"
    /\ Step(add_font_or_fallback(pdf, fontExists), "header")

RenderHeader ==
    /\ pc = "header" /\ impl = "gen"
    /\ Step(render_header(pdf, lab_title, student_name, section), "objective")

RenderObjective ==
    /\ pc = "objective" /\ impl = "gen"
    /\ Step(render_objective(pdf, objective), "table")

RenderDataTable ==
    /\ pc = "table" /\ impl = "gen"
    /\ Step(render_data_table(pdf, data_df), "plot")

\* Variants of the plot block: one without the fig_buf test, one that removes
\* the temporary file once the image is embedded.
PlotBlockNoGuard(heading) ==
    LET img_path == TmpName(tmpFiles)
        files == IF heading.exc = "none"
                 THEN Append(tmpFiles, [name |-> img_path, data |-> fig_buf])
                 ELSE tmpFiles
        p == ln(image(heading, files, img_path, ImageW), 5)
    IN  /\ tmpFiles' = files
        /\ pdf' = p
        /\ pc' = IF p.exc = "none" THEN "analysis" ELSE "raised"

PlotBlockCleanup(heading) ==
    IF fig_buf = None
    THEN /\ pc' = "analysis"
         /\ UNCHANGED <<pdf, tmpFiles>>
    ELSE LET img_path == TmpName(tmpFiles)
             files == IF heading.exc = "none"
                      THEN Append(tmpFiles, [name |-> img_path, data |-> fig_buf])
                      ELSE tmpFiles
             p == ln(image(heading, files, img_path, ImageW), 5)
         IN  /\ tmpFiles' = tmpFiles
             /\ pdf' = p
             /\ pc' = IF p.exc = "none" THEN "analysis" ELSE "raised"

\* The plot block: nothing without an image; else the heading, the temporary
\* file (created, written, closed, kept), the image and a line break.
PlotBlock(heading) ==
    IF fig_buf = None
    THEN /\ pc' = "analysis"
         /\ UNCHANGED <<pdf, tmpFiles>>
    ELSE LET img_path == TmpName(tmpFiles)
             files == IF heading.exc = "none"
                      THEN Append(tmpFiles, [name |-> img_path, data |-> fig_buf])
                      ELSE tmpFiles
             p == ln(image(heading, files, img_path, ImageW), 5)
         IN  /\ tmpFiles' = files
             /\ pdf' = p
             /\ pc' = IF p.exc = "none" THEN "analysis" ELSE "raised"

RenderPlot ==
    /\ pc = "plot" /\ impl = "gen"
    /\ PlotBlock(render_plot_heading(pdf))
    /\ UNCHANGED <<caller, impl, inputs, result, ui, calls, plotReturns>>

RenderAnalysis ==
    /\ pc = "analysis" /\ impl = "gen"
    /\ Step(render_analysis(pdf, analysis, conclusion), "output")

\* return bytes(pdf.output(dest="S"))
Output ==
    /\ pc = "output" /\ impl = "gen"
    /\ result' = DocBytes(pdf)
    /\ pc' = "returned"
    /\ UNCHANGED <<caller, impl, inputs, pdf, tmpFiles, ui, calls, plotReturns>>

----------------------------------------------------------------------------
(* create_lab_pdf of lab_app.py, one action per section *)

CallApp == Call("app")

AppLoadFont ==
    /\ pc = "font" /\ impl = "app"
    /\ Step(app_load_font(pdf, fontExists), "header")

AppHeader ==
    /\ pc = "header" /\ impl = "app"
    /\ Step(app_header(pdf, lab_title, student_name, section), "objective")

AppObjective ==
    /\ pc = "objective" /\ impl = "app"
    /\ Step(app_objective(pdf, objective), "table")

AppDataTable ==
    /\ pc = "table" /\ impl = "app"
    /\ Step(app_data_table(pdf, data_df), "plot")

AppPlot ==
    /\ pc = "plot" /\ impl = "app"
    /\ PlotBlock(app_plot_heading(pdf))
    /\ UNCHANGED <<caller, impl, inputs, result, ui, calls, plotReturns>>

AppAnalysis ==
    /\ pc = "analysis" /\ impl = "app"
    /\ Step(app_analysis(pdf, analysis, conclusion), "output")

\* return pdf.output(dest="S").encode("latin1")
AppOutput ==
    /\ pc = "output" /\ impl = "app"
    /\ result' = DocBytes(pdf)
    /\ pc' = "returned"
    /\ UNCHANGED <<caller, impl, inputs, pdf, tmpFiles, ui, calls, plotReturns>>

\* The direct caller receives the bytes, or the exception.
Return ==
    /\ pc = "returned" /\ caller = "direct"
    /\ pc' = "idle"
    /\ plotReturns' = IF fig_buf # None THEN plotReturns + 1 ELSE plotReturns
    /\ Forget
    /\ UNCHANGED <<caller, impl, tmpFiles, ui, calls>>

Propagate ==
    /\ pc = "raised" /\ caller = "direct"
    /\ pc' = "idle"
    /\ Forget
    /\ UNCHANGED <<caller, impl, tmpFiles, ui, calls, plotReturns>>

Export ==
    \/ AddFont \/ RenderHeader \/ RenderObjective \/ RenderDataTable
    \/ RenderPlot \/ RenderAnalysis \/ Output
    \/ AppLoadFont \/ AppHeader \/ AppObjective \/ AppDataTable
    \/ AppPlot \/ AppAnalysis \/ AppOutput

Next == CallGen \/ CallApp \/ Export \/ Return \/ Propagate

Spec == Init /\ [][Next]_vars

----------------------------------------------------------------------------
(* main of lab_app.py: one run of the Streamlit script *)

Shown(kind, data) == [kind |-> kind, data |-> data]

\* The script starts: the form widgets return their current values and the
\* table editor returns the two default columns with the rows entered.
MainRun ==
    /\ pc = "idle"
    /\ calls < MaxExports
    /\ caller' = "main"
    /\ impl' = "app"
    /\ student_name' \in FormTexts(Names)
    /\ section' \in FormTexts(Sections)
    /\ lab_title' \in Titles
    /\ objective' \in Objectives
    /\ \E nr \in 0..MaxRows : data_df' = MkTable(2, nr)
    /\ analysis' \in FormTexts(Analyses)
    /\ conclusion' \in FormTexts(Conclusions) \cup {""}
    /\ fontExists' \in BOOLEAN
    /\ fig_buf' = None
    /\ ui' = <<>>
    /\ pdf' = NewPdf
    /\ result' = NoBytes
    /\ pc' = "main_plot"
    /\ UNCHANGED <<tmpFiles, calls, plotReturns>>

\* The try block of the quick plot.  Any call in it may raise: one that
\* draws or saves the figure (before fig_buf = buf), or st.pyplot (after it).
PlotFailures == {"none", "draw", "pyplot"}

MainPlot ==
    /\ pc = "main_plot"
    /\ IF Empty(data_df)
       THEN UNCHANGED <<fig_buf, ui>>
       ELSE \E failure \in PlotFailures :
              /\ fig_buf' = IF failure = "draw" THEN None ELSE "PNG:scatter"
              /\ ui' = IF failure = "none"
                       THEN Append(ui, Shown("pyplot", NoBytes))
                       ELSE Append(ui, Shown("warning", NoBytes))
    /\ pc' = "main_button"
    /\ UNCHANGED <<caller, impl, student_name, section, lab_title, objective, data_df,
                   analysis, conclusion, fontExists, pdf, result, tmpFiles, calls,
                   plotReturns>>

\* st.button: pressed in this run, or not (the run ends).
MainButton ==
    /\ pc = "main_button"
    /\ \E pressed \in BOOLEAN :
         IF pressed
         THEN /\ pc' = "font"
              /\ calls' = calls + 1
         ELSE /\ pc' = "idle"
              /\ UNCHANGED calls
    /\ UNCHANGED <<caller, impl, inputs, pdf, result, tmpFiles, ui, plotReturns>>

\* create_lab_pdf returned: the success message and the download button.
MainSuccess ==
    /\ pc = "returned" /\ caller = "main"
    /\ ui' = ui \o <<Shown("success", NoBytes), Shown("download_button", result)>>
    /\ pc' = "idle"
    /\ plotReturns' = IF fig_buf # None THEN plotReturns + 1 ELSE plotReturns
    /\ UNCHANGED <<caller, impl, inputs, pdf, result, tmpFiles, calls>>

\* except Exception as e: st.error(...)
\* (MainExceptAndDownload: a handler that also offers the partial document)
MainExceptAndDownload ==
    /\ pc = "raised" /\ caller = "main"
    /\ ui' = ui \o <<Shown("error", NoBytes), Shown("download_button", DocBytes(pdf))>>
    /\ pc' = "idle"
    /\ UNCHANGED <<caller, impl, inputs, pdf, result, tmpFiles, calls, plotReturns>>
MainExcept ==
    /\ pc = "raised" /\ caller = "main"
    /\ ui' = Append(ui, Shown("error", NoBytes))
    /\ pc' = "idle"
    /\ UNCHANGED <<caller, impl, inputs, pdf, result, tmpFiles, calls, plotReturns>>

AppExport ==
    \/ AppLoadFont \/ AppHeader \/ AppObjective \/ AppDataTable
    \/ AppPlot \/ AppAnalysis \/ AppOutput

NextMain == MainRun \/ MainPlot \/ MainButton \/ AppExport \/ MainSuccess \/ MainExcept

SpecMain == Init /\ [][NextMain]_vars

----------------------------------------------------------------------------
(* Reading a canvas *)

IsBordered(it) == it.border = 1
IsBreak(it) == it.k = "ln"
IsContent(it) == it.k # "ln"

Bordered(items) == SelectSeq(items, IsBordered)
Content(items) == SelectSeq(items, IsContent)

HasText(items, t) == \E i \in 1..Len(items) : items[i].k # "image" /\ items[i].txt = t
HasImage(items) == \E i \in 1..Len(items) : items[i].k = "image"

\* The content blocks of a canvas in order: the text of each text item, one
\* "<table>" for each run of bordered cells, "<image>" for an image.
RECURSIVE BlocksFrom(_, _, _)
BlocksFrom(items, i, inTable) ==
    IF i > Len(items) THEN <<>>
    ELSE IF items[i].k = "image" THEN <<"<image>">> \o BlocksFrom(items, i + 1, FALSE)
    ELSE IF IsBordered(items[i])
         THEN (IF inTable THEN <<>> ELSE <<"<table>">>) \o BlocksFrom(items, i + 1, TRUE)
    ELSE <<items[i].txt>> \o BlocksFrom(items, i + 1, FALSE)

Blocks(items) == BlocksFrom(Content(items), 1, FALSE)

IsPrefix(s, t) == Len(s) <= Len(t) /\ \A i \in 1..Len(s) : s[i] = t[i]

\* A missing field (None or empty text) reads "N/A", any other its own text.
OrNA(x) == IF x = None \/ x = "" THEN "N/A" ELSE x

TableDone == pc \in {"plot", "analysis", "output", "returned"}
PlotDone == pc \in {"analysis", "output", "returned"}

UiKinds == {ui[i].kind : i \in 1..Len(ui)}

----------------------------------------------------------------------------
(* C1: for a non-empty table of n >= 1 columns, the width of every header   *)
(* and data cell times n never exceeds the content width, 210 - 15 - 15.   *)
(* Widths are exact fractions num/den: num * n <= 180 * den.               *)
C1_CellWidthFits ==
    \A i \in 1..Len(pdf.items) :
        IsBordered(pdf.items[i]) =>
            pdf.items[i].w[1] * Len(data_df.columns)
                <= (PageW - Margin - Margin) * pdf.items[i].w[2]

(* C2: with the font file missing, pdf_generator's create_lab_pdf raises   *)
(* no error in any render step and returns document bytes.                 *)
C2_MissingFontStillExports ==
    (impl = "gen" /\ ~ fontExists) => pc # "raised" /\ pdf.exc = "none"

(* C3: once the table block is rendered, an empty table has given the line *)
(* "No data entered." right under the "Data Table" heading and no bordered *)
(* cell; a non-empty table never gives the fallback line.                  *)
C3_EmptyTableFallback ==
    LET c == Content(pdf.items)
    IN  /\ Empty(data_df) => Bordered(pdf.items) = <<>>
        /\ ~ Empty(data_df) => ~ HasText(pdf.items, "No data entered.")
        /\ (TableDone /\ Empty(data_df)) =>
               \E i \in 1..(Len(c) - 1) :
                   /\ c[i].txt = "Data Table"
                   /\ c[i + 1].txt = "No data entered."
        /\ (TableDone /\ ~ Empty(data_df)) => Bordered(pdf.items) # <<>>

C3_Witness ==
    /\ pc = "returned"
    /\ Len(data_df.columns) = 2 /\ Len(data_df.rows) = 0
    /\ HasText(result.body, "No data entered.")

(* C4: without a plot image the export emits no "Plot" heading, no image   *)
(* and creates no temporary file; the "Plot" heading is in the canvas only *)
(* if an image was supplied, is in it once the plot step is passed with an *)
(* image, and is always directly followed by the image.                    *)
C4_NoPlotState ==
    LET c == Content(pdf.items)
    IN  /\ fig_buf = None => ~ HasText(pdf.items, "Plot") /\ ~ HasImage(pdf.items)
        /\ (PlotDone /\ fig_buf # None) => HasText(pdf.items, "Plot")
        /\ \A i \in 1..Len(c) :
               (c[i].k # "image" /\ c[i].txt = "Plot") =>
                   i < Len(c) /\ c[i + 1].k = "image"
        /\ \A i \in 1..Len(c) :
               c[i].k = "image" => i > 1 /\ c[i - 1].txt = "Plot"

C4_PlotSectionIffImage ==
    /\ [] C4_NoPlotState
    /\ [][(pc # "idle" /\ fig_buf = None) => tmpFiles' = tmpFiles]_vars

C4_Witness ==
    /\ pc = "returned"
    /\ fig_buf = None
    /\ Len(tmpFiles) = 1
    /\ ~ HasText(result.body, "Plot")

(* C5: the blocks are appended in the order title, student name, section,  *)
(* timestamp, objective, data table or its fallback line, plot if          *)
(* supplied, analysis, conclusion, each at most once: the canvas is always *)
(* a prefix of that sequence and is all of it when the export returns;     *)
(* document bytes exist only after the conclusion block and hold it all.   *)
C5_Expected ==
    <<lab_title,
      "Student Name: " \o OrNA(student_name),
      "Section: " \o OrNA(section),
      "Generated: " \o Timestamp,
      "Objective:\n" \o objective,
      "Data Table",
      IF Empty(data_df) THEN "No data entered." ELSE "<table>">>
    \o (IF fig_buf # None THEN <<"Plot", "<image>">> ELSE <<>>)
    \o <<"Analysis", OrNA(analysis), "Conclusion", OrNA(conclusion)>>

C5_BlockOrder ==
    /\ IsPrefix(Blocks(pdf.items), C5_Expected)
    /\ pc = "returned" => Blocks(pdf.items) = C5_Expected
    /\ result # NoBytes =>
           /\ pc = "returned"
           /\ result.body = pdf.items
           /\ Blocks(result.body) = C5_Expected

C5_Witness ==
    /\ pc = "returned"
    /\ fig_buf # None
    /\ ~ Empty(data_df)
    /\ Len(Blocks(result.body)) = 13

(* C6: a non-empty table of c columns and r rows gives exactly (r + 1) * c *)
(* bordered cells: the c column names in column order, then row by row the *)
(* stringified value of each column in the same order, and a line break   *)
(* right after the header line and after every row.                        *)
C6_TableCells ==
    (TableDone /\ ~ Empty(data_df)) =>
        LET c == Len(data_df.columns)
            r == Len(data_df.rows)
            b == Bordered(pdf.items)
            f == CHOOSE i \in 1..Len(pdf.items) :
                     /\ IsBordered(pdf.items[i])
                     /\ \A k \in 1..(i - 1) : ~ IsBordered(pdf.items[k])
        IN  /\ Len(b) = (r + 1) * c
            /\ \A i \in 1..c : b[i].txt = data_df.columns[i]
            /\ \A j \in 1..r : \A i \in 1..c :
                   b[j * c + i].txt = Str(data_df.rows[j][data_df.columns[i]])
            /\ \A k \in 0..r :
                   /\ \A i \in 1..c : IsBordered(pdf.items[f + k * (c + 1) + i - 1])
                   /\ IsBreak(pdf.items[f + k * (c + 1) + c])

C6_Witness ==
    /\ pc = "returned"
    /\ Len(data_df.columns) = 3 /\ Len(data_df.rows) = 2
    /\ Len(Bordered(result.body)) = 9

(* C7: in main, an exception of create_lab_pdf is caught: the error        *)
(* message is shown, the success message and the download button are not,  *)
(* error and download button never appear in one run, and no document      *)
(* bytes reach the page.                                                   *)
C7_ExportFailureCaught ==
    /\ ~ ("error" \in UiKinds /\ "download_button" \in UiKinds)
    /\ ~ ("error" \in UiKinds /\ "success" \in UiKinds)
    /\ pc = "raised" => result = NoBytes
    /\ (pc = "idle" /\ pdf.exc # "none") =>
           /\ "error" \in UiKinds
           /\ "success" \notin UiKinds
           /\ "download_button" \notin UiKinds
           /\ \A i \in 1..Len(ui) : ui[i].data = NoBytes

C7_Witness ==
    /\ pc = "idle"
    /\ caller = "main"
    /\ pdf.exc = "FileNotFoundError"
    /\ "error" \in UiKinds

(* C8: in main, when the plot try block raises, the warning is shown,      *)
(* fig_buf stays None and the export that follows has no Plot section.     *)
C8_PlotFailureLeavesNoPlot ==
    "warning" \in UiKinds =>
        /\ fig_buf = None
        /\ ~ HasText(pdf.items, "Plot")
        /\ ~ HasImage(pdf.items)

(* C9: a missing student name, section, analysis or conclusion (None or    *)
(* empty text) is rendered as "N/A" in its place; a non-empty field is     *)
(* rendered as its own text.                                               *)
C9_MissingFieldsNA ==
    LET c == Content(pdf.items)
        n == Len(c)
    IN  /\ pc \in {"objective", "table", "plot", "analysis", "output", "returned"} =>
               /\ c[2].txt = "Student Name: " \o OrNA(student_name)
               /\ c[3].txt = "Section: " \o OrNA(section)
        /\ pc \in {"output", "returned"} =>
               /\ c[n - 3].txt = "Analysis"
               /\ c[n - 2].txt = OrNA(analysis)
               /\ c[n - 1].txt = "Conclusion"
               /\ c[n].txt = OrNA(conclusion)

C9_Witness ==
    /\ pc = "returned"
    /\ student_name = None
    /\ section # ""
    /\ analysis = ""
    /\ conclusion # None
    /\ HasText(result.body, "Student Name: N/A")
    /\ HasText(result.body, "N/A")

(* C10: an export with a plot image that reaches the plot step leaves      *)
(* exactly one temporary file, holding the image bytes, written before the *)
(* image is embedded from it; no file is ever deleted or changed; after k  *)
(* such exports k files are left, and an export without an image leaves    *)
(* the count unchanged.                                                    *)
C10_TmpState ==
    /\ Len(tmpFiles) = plotReturns + (IF PlotDone /\ fig_buf # None THEN 1 ELSE 0)
    /\ \A i \in 1..Len(tmpFiles) : tmpFiles[i].data = "PNG:scatter"
    /\ \A i \in 1..Len(tmpFiles) : \A j \in 1..Len(tmpFiles) :
           tmpFiles[i].name = tmpFiles[j].name => i = j
    /\ \A i \in 1..Len(pdf.items) :
           pdf.items[i].k = "image" =>
               /\ pdf.items[i].txt = tmpFiles[Len(tmpFiles)].name
               /\ pdf.items[i].data = fig_buf

C10_TmpFilesLeak ==
    /\ [] C10_TmpState
    /\ [][IsPrefix(tmpFiles, tmpFiles') /\ Len(tmpFiles') <= Len(tmpFiles) + 1]_vars

C10_Witness ==
    /\ pc = "idle"
    /\ plotReturns = 2
    /\ Len(tmpFiles) = 2

====
